---- MODULE Spec2Model ----
(***************************************************************************)
(* The selection/capture core of the screenshot tool                       *)
(* (src/screenshot_tool_new.py, class ScreenshotTool) together with the    *)
(* callers that drive it: the buttons, the tray menu and the global hotkey *)
(* of the two front ends (src/screenshot_tool_new.py ScreenshotGUI and     *)
(* src/screenshot_gui.py ScreenshotGUI).                                   *)
(*                                                                         *)
(* Handlers that Tk runs on the UI thread are one action each.  The        *)
(* background thread (keyboard listener / tray thread) that calls          *)
(* start_area_screenshot directly is a process of three steps that         *)
(* interleave with the UI-thread handlers.                                 *)
(*                                                                         *)
(* Fields that are written before every read inside one handler carry no   *)
(* state between handlers and are inputs or locals here: end_x, end_y      *)
(* (lines 778-779, 807-808), current_screenshot_mode (497),                *)
(* canvas_width/canvas_height (648-649, 677-678).  The event that ran      *)
(* last, with its inputs and effects, is recorded in ev.                   *)
(*                                                                         *)
(* Five specifications:  Spec is the UI-thread core with the pointer       *)
(* events on every machine; SpecThreads adds the background thread, the    *)
(* after-queue and the host window's actions; SpecSave applies             *)
(* save_screenshot to images of the sizes that make the resize rule act;   *)
(* SpecFiles follows the save directory through captures, clock ticks and  *)
(* clean_screenshots; SpecHotkey follows toggle_hotkey and its worker      *)
(* threads (screenshot_gui.py).                                            *)
(***************************************************************************)
EXTENDS Integers, Sequences, FiniteSets, TLC

----------------------------------------------------------------------------
(* Bounds of the model. *)

\* files the model lets the tool write before no further session is started
MaxSaves == 1
\* identities available for overlay windows (tk.Toplevel objects)
MaxWin == 2
\* root.after(0, ...) callbacks that may be queued at once
MaxPending == 1
\* files the tool writes while the save directory is studied
MaxFiles == 2
\* ticks the wall clock makes
MaxNow == 2
\* hotkey worker threads that start_hotkey may create
MaxWorkers == 2

----------------------------------------------------------------------------
(* Program constants. *)

\* on_mouse_release: "if x2 - x1 > 10 and y2 - y1 > 10"
MinSelection == 10
\* detect_monitors: the synthetic display
DefaultWidth == 1920
DefaultHeight == 1080

\* Python's None, for a rectangle, an image and a window
NoRect == [none |-> TRUE]
NoImage == << >>
NoWindow == 0

Min2(a, b) == IF a <= b THEN a ELSE b
Max2(a, b) == IF a >= b THEN a ELSE b

----------------------------------------------------------------------------
(* Displays as the platform reports them. *)

\* monitor_data of enum_monitors_proc: the fields the program reads
Mon(l, t, r, b, p) ==
    [left |-> l, top |-> t, right |-> r, bottom |-> b,
     width |-> r - l, height |-> b - t, is_primary |-> p]

\* the synthetic display of the fallback paths
SyntheticMonitor == Mon(0, 0, DefaultWidth, DefaultHeight, TRUE)

\* Display configurations the platform may report, in EnumDisplayMonitors
\* order: one display; a rotated display to the right of the primary; a
\* display to the left of the primary (negative coordinates, enumerated
\* first); two overlapping displays; the two displays of the spec's scenario;
\* three displays with the primary in the middle.
DisplayConfigs ==
    { << Mon(0, 0, 20, 12, TRUE) >>,
      << Mon(0, 0, 20, 12, TRUE), Mon(20, 0, 32, 20, FALSE) >>,
      << Mon(-12, 0, 0, 12, FALSE), Mon(0, 0, 20, 12, TRUE) >>,
      << Mon(0, 0, 20, 12, TRUE), Mon(10, 0, 30, 12, FALSE) >>,
      << Mon(0, 0, 1920, 1080, TRUE), Mon(1920, 0, 3000, 1920, FALSE) >>,
      << Mon(20, 0, 32, 20, FALSE), Mon(0, 0, 20, 12, TRUE),
         Mon(-12, 0, 0, 12, FALSE) >> }

\* the configurations of the machine on which the threads are studied
ThreadDisplays ==
    { << Mon(0, 0, 20, 12, TRUE) >>,
      << Mon(-12, 0, 0, 12, FALSE), Mon(0, 0, 20, 12, TRUE) >> }

\* screen sizes winfo_screenwidth/winfo_screenheight may report
TkScreens == { <<20, 12>>, <<32, 20>> }

\* positions GetCursorPos may report
CursorXYs ==
    { <<0, 0>>, <<15, 5>>, <<20, 5>>, <<5, 15>>, <<-1, 5>>,
      <<1919, 500>>, <<1920, 0>>, <<1920, 1079>>, <<2000, 500>> }

\* event.x / event.y of the pointer events on the overlay canvas
EventXs == { -12, 0, 10, 20, 31 }
EventYs == { 0, 10, 12 }

\* event.x, event.y of a pointer-down: the corner of the overlay, a point
\* inside a 20 x 12 image, and points on and past the right and bottom edges
\* of such an image
PressPoints == { << 0, 0 >>, << 10, 10 >>, << 20, 0 >>, << 0, 12 >>, << 31, 12 >> }

Modes == { "auto", "mouse", "all" }

\* the bounding rectangle GetSystemMetrics(SM_*VIRTUALSCREEN) reports
VirtualScreen(cfg) ==
    LET idx == 1..Len(cfg)
        l == CHOOSE v \in { cfg[i].left : i \in idx } :
                 \A i \in idx : v <= cfg[i].left
        t == CHOOSE v \in { cfg[i].top : i \in idx } :
                 \A i \in idx : v <= cfg[i].top
        r == CHOOSE v \in { cfg[i].right : i \in idx } :
                 \A i \in idx : v >= cfg[i].right
        b == CHOOSE v \in { cfg[i].bottom : i \in idx } :
                 \A i \in idx : v >= cfg[i].bottom
    IN  [left |-> l, top |-> t, width |-> r - l, height |-> b - t]

\* GetCursorPos: failure, or a position on the virtual screen
NoCursor == [ok |-> FALSE, x |-> 0, y |-> 0]

CursorPoints(cfg) ==
    LET v == VirtualScreen(cfg)
    IN  { NoCursor } \cup
        { [ok |-> TRUE, x |-> p[1], y |-> p[2]] :
            p \in { q \in CursorXYs :
                      /\ v.left <= q[1] /\ q[1] < v.left + v.width
                      /\ v.top <= q[2] /\ q[2] < v.top + v.height } }

\* the display ImageGrab.grab() captures without all_screens: the primary one
PrimaryOf(cfg) ==
    LET ps == { i \in 1..Len(cfg) : cfg[i].is_primary }
    IN  IF ps = {} THEN cfg[1]
        ELSE cfg[CHOOSE i \in ps : \A j \in ps : i <= j]

\* The machines: each is in one of the display configurations, or has only
\* the primary display of that configuration attached; its displays can be
\* attached and detached between two sessions.
Machines ==
    { { c \in DisplayConfigs :
          c = d \/ (Len(c) = 1 /\ c[1] = PrimaryOf(d)) } : d \in DisplayConfigs }

----------------------------------------------------------------------------
VARIABLES
    win32,                \* sys.platform == "win32" and user32 is available
    displays,             \* the display configurations the machine can be in
    monitors,             \* self.monitors
    virtual_screen_rect,  \* self.virtual_screen_rect (None or a rectangle)
    virtual_offset,       \* self.virtual_offset
    screenshot_img,       \* self.screenshot_img: None or its <<width, height>>
    screenshot_window,    \* self.screenshot_window: None or an overlay window
    overlays,             \* the overlay windows (Toplevel) that are not destroyed
    selecting,            \* self.selecting
    start_x, start_y,     \* self.start_x, self.start_y
    was_minimized,        \* self.was_minimized
    host,                 \* state of main_window: normal, iconic or withdrawn
    disk,                 \* number of image files written
    files,                \* names of the files in the save directory
    now,                  \* the wall clock, in ticks
    clipboard,            \* the text on the clipboard, << >> when none
    pending_after,        \* root.after(0, self.start_screenshot) callbacks queued
    bg_pc,                \* where the background thread is in start_area_screenshot
    pre_vis,              \* host state before the running session was started
    hotkey_enabled,       \* screenshot_gui.py: self.hotkey_enabled
    worker_pc,            \* where each hotkey_worker thread is
    hotkeys,              \* the workers whose keyboard.add_hotkey registration is active
    ev                    \* the handler that ran last, its inputs and effects

vars == << win32, displays, monitors, virtual_screen_rect, virtual_offset, screenshot_img,
           screenshot_window, overlays, selecting, start_x, start_y,
           was_minimized, host, disk, files, now, clipboard, pending_after,
           bg_pc, pre_vis, hotkey_enabled, worker_pc, hotkeys, ev >>

\* the state of the hotkey of screenshot_gui.py
hotkey_vars == << hotkey_enabled, worker_pc, hotkeys >>

\* the state of the tool and its save directory
tool_vars == << win32, displays, monitors, virtual_screen_rect, virtual_offset,
                screenshot_img, screenshot_window, overlays, selecting,
                start_x, start_y, was_minimized, host, disk, files, now,
                clipboard, pending_after, bg_pc, pre_vis >>

----------------------------------------------------------------------------
(* Display Enumerator. *)

\* KeyLeq on the position only: (left, top)
KeyLeq_position(a, b) ==
    \/ a.left < b.left
    \/ a.left = b.left /\ a.top <= b.top

\* the sort key of detect_monitors: (not is_primary, left, top)
KeyLeq(a, b) ==
    LET ka == IF a.is_primary THEN 0 ELSE 1
        kb == IF b.is_primary THEN 0 ELSE 1
    IN  \/ ka < kb
        \/ ka = kb /\ a.left < b.left
        \/ ka = kb /\ a.left = b.left /\ a.top <= b.top

\* m placed into the sorted sequence s behind every element whose key is not
\* greater (list.sort is stable)
RECURSIVE InsertMonitor(_, _)
InsertMonitor(m, s) ==
    IF s = << >> THEN << m >>
    ELSE IF KeyLeq(s[Len(s)], m) THEN Append(s, m)
    ELSE Append(InsertMonitor(m, SubSeq(s, 1, Len(s) - 1)), s[Len(s)])

\* self.monitors.sort(key=lambda x: (not x['is_primary'], x['left'], x['top']))
RECURSIVE SortMonitors(_)
SortMonitors(s) ==
    IF s = << >> THEN << >>
    ELSE InsertMonitor(s[Len(s)], SortMonitors(SubSeq(s, 1, Len(s) - 1)))

\* the enumeration of lines 194-239 completes; completes although
\* GetMonitorInfoW fails for the primary display, which the callback then
\* leaves out (lines 199, 223-226); or raises
DetectOutcomes == { "ok", "info_fails", "raise" }

\* the displays enum_monitors_proc appends, in EnumDisplayMonitors order
RECURSIVE Enumerated(_, _)
Enumerated(cfg, outcome) ==
    IF cfg = << >> THEN << >>
    ELSE LET rest == Enumerated(Tail(cfg), outcome)
         IN  IF outcome = "info_fails" /\ Head(cfg).is_primary THEN rest
             ELSE << Head(cfg) >> \o rest

\* detect_monitors: the new self.monitors and self.virtual_screen_rect.
\*   cfg: what the platform enumerates; tk: the Tk screen size;
\*   rect: self.virtual_screen_rect before the call
detect_monitors(cfg, tk, outcome, rect) ==
    IF win32
    THEN LET found == IF outcome = "raise" THEN << SyntheticMonitor >>
                      ELSE SortMonitors(Enumerated(cfg, outcome))
         IN  [monitors |-> IF found = << >> THEN << SyntheticMonitor >> ELSE found,
              virtual_screen_rect |-> VirtualScreen(cfg)]
    ELSE [monitors |-> << Mon(0, 0, tk[1], tk[2], TRUE) >>,
          virtual_screen_rect |-> rect]

\* get_virtual_screen_bounds: self.virtual_screen_rect after the call
get_virtual_screen_bounds(rect, img) ==
    IF rect = NoRect
    THEN [left |-> 0, top |-> 0,
          width |-> IF img = NoImage THEN DefaultWidth ELSE img[1],
          height |-> IF img = NoImage THEN DefaultHeight ELSE img[2]]
    ELSE rect

----------------------------------------------------------------------------
(* Capture Engine. *)

\* what a capture can do: the BitBlt succeeds; it is unavailable or fails
\* and the ImageGrab.grab() fallback succeeds; the fallback raises as well
CaptureOutcomes == { "blit", "fallback", "throw" }

\* capture_all_screens: <<image size, origin offset>> when it returns.
\* "blit": the BitBlt of the whole virtual screen (line 369); otherwise
\* ImageGrab.grab() of the primary display, tagged (0, 0) (372, 375, 378)
capture_all_screens(cfg, tk, cap) ==
    IF win32
    THEN IF cap = "blit"
         THEN LET v == VirtualScreen(cfg)
              IN  [img |-> << v.width, v.height >>, offset |-> << v.left, v.top >>]
         ELSE LET p == PrimaryOf(cfg)
              IN  [img |-> << p.width, p.height >>, offset |-> << 0, 0 >>]
    ELSE [img |-> tk, offset |-> << 0, 0 >>]

\* capture_monitor: the image has the display's size on every path
capture_monitor(monitor_info) ==
    << monitor_info.width, monitor_info.height >>

\* Contains with the right and bottom edges included
ContainsClosed(monitor, x, y) ==
    /\ monitor.left <= x /\ x <= monitor.right
    /\ monitor.top <= y /\ y <= monitor.bottom

\* the containment test of get_mouse_monitor
Contains(monitor, x, y) ==
    /\ monitor.left <= x /\ x < monitor.right
    /\ monitor.top <= y /\ y < monitor.bottom

\* "for i, monitor in enumerate(self.monitors): if <contains>: return i",
\* from position i (1-based here) on; -1 when the loop ends without a match
RECURSIVE FirstContaining(_, _, _, _)
FirstContaining(mons, x, y, i) ==
    IF i > Len(mons) THEN -1
    ELSE IF Contains(mons[i], x, y) THEN i - 1
    ELSE FirstContaining(mons, x, y, i + 1)

\* "for i, monitor in enumerate(self.monitors): if monitor['is_primary']: return i"
RECURSIVE FirstPrimary(_, _)
FirstPrimary(mons, i) ==
    IF i > Len(mons) THEN -1
    ELSE IF mons[i].is_primary THEN i - 1
    ELSE FirstPrimary(mons, i + 1)

\* get_mouse_monitor answering with the last display when none matches
get_mouse_monitor_last(mons, cur) ==
    IF ~win32 THEN 0
    ELSE IF ~cur.ok THEN 0
    ELSE LET hit == FirstContaining(mons, cur.x, cur.y, 1)
         IN  IF hit >= 0 THEN hit ELSE Len(mons) - 1

\* get_mouse_monitor: the 0-based index it returns
get_mouse_monitor(mons, cur) ==
    IF ~win32 THEN 0
    ELSE IF ~cur.ok THEN 0
    ELSE LET hit == FirstContaining(mons, cur.x, cur.y, 1)
             prim == FirstPrimary(mons, 1)
         IN  IF hit >= 0 THEN hit
             ELSE IF prim >= 0 THEN prim
             ELSE 0

----------------------------------------------------------------------------
(* The record of the handler that ran last. *)

EvBase ==
    [op |-> "init",          \* the handler
     thread |-> "ui",        \* the thread it ran on
     mode |-> "",            \* screenshot_mode of a start
     cursor |-> NoCursor,    \* what GetCursorPos returned to a start
     idx |-> -1,             \* what get_mouse_monitor returned to a start
     cfg |-> << >>,          \* the displays of the platform at a start
     tk |-> <<0, 0>>,        \* the Tk screen size at a start
     det |-> "",             \* how the enumeration of a start went
     capture |-> "",         \* how the capture of a start went
     path |-> "",            \* "all": capture_all_screens; "monitor": capture_monitor
     outcome |-> "",         \* Committed, Cancelled or Ignored
     sel |-> <<0, 0, 0, 0>>, \* x1, y1, x2, y2 of on_mouse_release
     img |-> <<0, 0, 0, 0>>, \* img_x1 .. img_y2 before the range check
     box |-> <<0, 0, 0, 0>>, \* img_x1 .. img_y2 after it
     crop |-> <<0, 0>>,      \* size of cropped_img; <<0, 0>> when not cropped
     error |-> FALSE,        \* messagebox.showerror was called
     save_called |-> FALSE,  \* save_screenshot was called
     preset |-> "",          \* quality_preset of the save
     saved |-> <<0, 0>>,     \* size of the image written; <<0, 0>> when none
     partial |-> FALSE,      \* a partly written file is left at the path
     disk0 |-> 0,            \* disk before the handler
     clip0 |-> << >>,        \* clipboard before the handler
     files0 |-> {},          \* files before the handler
     file |-> << >>,         \* the name generate_filename gave to a save
     how |-> "",             \* how the save went
     custom_prefix |-> << >>,\* custom_prefix of the save
     copied |-> FALSE,       \* a pyperclip.copy call of the save succeeded
     file_prefix |-> << >>,  \* file_prefix of a clean_screenshots call
     answer |-> "",          \* the answer to its confirmation dialog
     locked |-> {},          \* the files unlink() could not delete
     found |-> << >>,        \* found_files
     deleted |-> 0,          \* deleted_count
     failed |-> 0,           \* len(failed_files)
     started |-> 0,          \* sessions one press of the hotkey started
     overlays0 |-> {},       \* overlays before the handler
     pressed |-> FALSE,      \* the overlay of the running session got a pointer-down
     restarted |-> FALSE,    \* the running session was started during a session
     steps |-> << >>,        \* what the handler did, in the order it did it
     once |-> << >>]         \* what the first cancel_screenshot call of the handler left

Ev(op, thread) ==
    [EvBase EXCEPT !.op = op, !.thread = thread,
                   !.disk0 = disk, !.clip0 = clipboard, !.overlays0 = overlays,
                   !.files0 = files,
                   !.pressed = ev.pressed, !.restarted = ev.restarted]

----------------------------------------------------------------------------
(* Selection Controller: start_area_screenshot. *)

\* the tool has not yet written MaxSaves files, whole or in part
SavesLeft == disk < MaxSaves /\ Cardinality(files) < MaxSaves

\* a session is armed or being armed
SessionActive == overlays # {} \/ bg_pc # "idle"

\* StartCapture taking the 'mouse' branch with a single display as well
StartCapture_single_display(mode, d, idx, all) ==
    LET mons == d.monitors
        mouse == mode = "mouse"
        one == mouse /\ idx < Len(mons)
        img == IF one THEN capture_monitor(mons[idx + 1]) ELSE all.img
        off == IF one THEN << mons[idx + 1].left, mons[idx + 1].top >>
               ELSE all.offset
    IN  [monitors |-> mons, img |-> img, offset |-> off,
         rect |-> get_virtual_screen_bounds(d.virtual_screen_rect, img),
         idx |-> IF mouse THEN idx ELSE -1,
         path |-> IF one THEN "monitor" ELSE "all"]

\* start_area_screenshot, lines 516-536: the capture and the virtual screen
\* bounds, given what detect_monitors (d), get_mouse_monitor (idx) and
\* capture_all_screens (all) return
StartCapture(mode, d, idx, all) ==
    LET mons == d.monitors
        mouse == mode = "mouse" /\ Len(mons) > 1
        one == mouse /\ idx < Len(mons)
        img == IF one THEN capture_monitor(mons[idx + 1]) ELSE all.img
        off == IF one THEN << mons[idx + 1].left, mons[idx + 1].top >>
               ELSE all.offset
    IN  [monitors |-> mons, img |-> img, offset |-> off,
         rect |-> get_virtual_screen_bounds(d.virtual_screen_rect, img),
         idx |-> IF mouse THEN idx ELSE -1,
         path |-> IF one THEN "monitor" ELSE "all"]

\* the steps of start_area_screenshot in the order of its lines: 501, 511,
\* 516-529, 536, and 549 when the same thread goes on to the overlay
StartSteps(thread, cap) ==
    << "detect_monitors", "withdraw_host", "capture" >>
    \o (IF cap = "throw" THEN << >> ELSE << "virtual_bounds" >>)
    \o (IF cap # "throw" /\ thread = "ui" THEN << "create_overlay" >> ELSE << >>)

\* lines 497-536 as a step of `thread`.  When the capture raises ("throw":
\* the ImageGrab.grab() of line 378 or 434), the exception leaves
\* start_area_screenshot: lines 498-511 have run, the rest has not.
ArmSession(thread, mode, cfg, tk, det, cur, cap) ==
    \E d \in { detect_monitors(cfg, tk, det, virtual_screen_rect) } :
    \E idx \in { get_mouse_monitor(d.monitors, cur) } :
    \E all \in { capture_all_screens(cfg, tk, cap) } :
    \E r \in { StartCapture(mode, d, idx, all) } :
        /\ monitors' = r.monitors
        /\ virtual_screen_rect' =
               IF cap = "throw" THEN d.virtual_screen_rect ELSE r.rect
        /\ screenshot_img' = IF cap = "throw" THEN screenshot_img ELSE r.img
        /\ virtual_offset' = IF cap = "throw" THEN << 0, 0 >> ELSE r.offset
        /\ was_minimized' = (host # "normal")
        /\ host' = "withdrawn"
        /\ pre_vis' = IF SessionActive THEN pre_vis ELSE host
        /\ ev' = [Ev("start", thread) EXCEPT
                     !.mode = mode, !.idx = r.idx,
                     !.cursor = IF r.idx >= 0 THEN cur ELSE NoCursor,
                     !.cfg = cfg, !.tk = tk, !.det = det,
                     !.capture = cap, !.path = r.path,
                     !.outcome = IF cap = "throw" THEN "Aborted" ELSE "Armed",
                     !.pressed = IF cap = "throw" THEN ev.pressed ELSE FALSE,
                     !.restarted = SessionActive,
                     !.steps = StartSteps(thread, cap)]

\* create_selection_window, lines 583-587: the old window is destroyed
DestroyedOld == overlays \ { screenshot_window }

\* the Toplevel that tk.Toplevel() creates, when the windows alive are ws
NewWindow(ws) == CHOOSE w \in (1..MaxWin) \ ws : \A v \in (1..MaxWin) \ ws : w <= v

\* create_selection_window as one step
create_selection_window ==
    /\ overlays' = DestroyedOld \cup { NewWindow(DestroyedOld) }
    /\ screenshot_window' = NewWindow(DestroyedOld)

\* the platform's answers to one start_area_screenshot; an answer the call
\* does not read (the cursor outside 'mouse' mode) is fixed, and so is one
\* that makes no difference (capture_monitor's fallback grabs the same
\* rectangle as its BitBlt).  'auto' takes the lines 'all' takes (516 tests
\* for 'mouse' only): the failures of the platform are enumerated under
\* 'all' and 'mouse'.
EnvChoice(mode) ==
    IF win32
    THEN UNION { LET one == /\ mode = "mouse" /\ det # "raise"
                            /\ Len(Enumerated(cfg, det)) > 1
                 IN  { [cfg |-> cfg, tk |-> <<0, 0>>, det |-> det,
                        cur |-> cur, cap |-> cap] :
                         cur \in IF one THEN CursorPoints(cfg) ELSE { NoCursor },
                         cap \in IF one THEN { "blit", "throw" }
                                 ELSE IF mode = "auto" THEN { "blit" }
                                 ELSE CaptureOutcomes }
                 : cfg \in displays,
                   det \in IF mode = "auto" THEN { "ok" } ELSE DetectOutcomes }
    ELSE { [cfg |-> << >>, tk |-> tk, det |-> "ok", cur |-> NoCursor,
            cap |-> cap] : tk \in TkScreens, cap \in { "fallback", "throw" } }

\* start_area_screenshot as one handler of the UI thread
start_area_screenshot(mode) ==
    /\ SavesLeft
    /\ (1..MaxWin) \ DestroyedOld # {}
    /\ \E c \in EnvChoice(mode) :
          /\ ArmSession("ui", mode, c.cfg, c.tk, c.det, c.cur, c.cap)
          /\ IF c.cap = "throw"
             THEN UNCHANGED << overlays, screenshot_window >>
             ELSE create_selection_window
    /\ UNCHANGED << hotkey_vars, win32, displays, now, files, selecting, start_x, start_y, disk, clipboard, bg_pc >>

----------------------------------------------------------------------------
(* The callers of start_area_screenshot. *)

\* a button of the host window: take_screenshot (screenshot_gui.py) or
\* start_screenshot (screenshot_tool_new.py), on the UI thread.  The button
\* can be pressed while the host window is shown and no overlay covers it.
ButtonStart ==
    /\ host = "normal"
    /\ overlays = {}
    /\ \E mode \in Modes : start_area_screenshot(mode)
    /\ UNCHANGED pending_after

\* global_screenshot_callback of screenshot_tool_new.py on the keyboard
\* thread: un-minimizes the host window and queues start_screenshot
HotkeyMarshalled ==
    /\ pending_after < MaxPending
    /\ pending_after' = pending_after + 1
    /\ host' = IF host = "iconic" THEN "normal" ELSE host
    /\ ev' = Ev("hotkey_callback", "hotkey")
    /\ UNCHANGED << hotkey_vars, win32, displays, now, files, monitors, virtual_screen_rect, virtual_offset,
                    screenshot_img, screenshot_window, overlays, selecting,
                    start_x, start_y, was_minimized, disk, clipboard, bg_pc,
                    pre_vis >>

\* the queued start_screenshot runs on the UI thread
RunAfter ==
    /\ pending_after > 0
    /\ \E mode \in Modes : start_area_screenshot(mode)
    /\ pending_after' = pending_after - 1

\* start_area_screenshot called on a background thread: the hotkey lambda of
\* screenshot_gui.py (mode 'all') on the keyboard listener thread, or
\* tray_screenshot of screenshot_tool_new.py on the tray thread.
\* First step: lines 497-536.
BgArm ==
    /\ bg_pc = "idle"
    /\ SavesLeft
    /\ \E thread \in { "hotkey", "tray" }, mode \in Modes :
        /\ thread = "hotkey" => mode = "all"
        /\ \E c \in EnvChoice(mode) :
              /\ ArmSession(thread, mode, c.cfg, c.tk, c.det, c.cur, c.cap)
              /\ bg_pc' = IF c.cap = "throw" THEN "idle" ELSE "destroy_old"
    /\ UNCHANGED << hotkey_vars, win32, displays, now, files, screenshot_window, overlays, selecting, start_x,
                    start_y, disk, clipboard, pending_after >>

\* second step: create_selection_window, lines 583-587
BgDestroyOld ==
    /\ bg_pc = "destroy_old"
    /\ overlays' = DestroyedOld
    /\ bg_pc' = "toplevel"
    /\ ev' = Ev("create_selection_window", "bg")
    /\ UNCHANGED << hotkey_vars, win32, displays, now, files, monitors, virtual_screen_rect, virtual_offset,
                    screenshot_img, screenshot_window, selecting, start_x,
                    start_y, was_minimized, host, disk, clipboard,
                    pending_after, pre_vis >>

\* third step: create_selection_window, lines 589-714
BgToplevel ==
    /\ bg_pc = "toplevel"
    /\ (1..MaxWin) \ overlays # {}
    /\ overlays' = overlays \cup { NewWindow(overlays) }
    /\ screenshot_window' = NewWindow(overlays)
    /\ bg_pc' = "idle"
    /\ ev' = Ev("create_selection_window", "bg")
    /\ UNCHANGED << hotkey_vars, win32, displays, now, files, monitors, virtual_screen_rect, virtual_offset,
                    screenshot_img, selecting, start_x, start_y,
                    was_minimized, host, disk, clipboard, pending_after,
                    pre_vis >>

----------------------------------------------------------------------------
(* Selection Controller: the pointer and key handlers. *)

\* the host window after the restore of capture_selected_area (872-885) and
\* of cancel_screenshot (1106-1119)
RestoredHost == IF was_minimized THEN "iconic" ELSE "normal"

\* cancel_screenshot, lines 1097-1104: the window is destroyed and the
\* reference cleared; destroying a destroyed window raises, and the
\* reference stays
CancelWindow ==
    IF screenshot_window # NoWindow /\ screenshot_window \in overlays
    THEN [overlays |-> overlays \ { screenshot_window }, window |-> NoWindow]
    ELSE [overlays |-> overlays, window |-> screenshot_window]

\* what one cancel_screenshot call leaves
CancelledOnce ==
    [overlays |-> CancelWindow.overlays, window |-> CancelWindow.window,
     host |-> RestoredHost]

\* a further cancel_screenshot call in the state s an earlier call left
\* (lines 1097-1119 again)
cancel_again(s) ==
    LET alive == s.window # NoWindow /\ s.window \in s.overlays
    IN  [overlays |-> IF alive THEN s.overlays \ { s.window } ELSE s.overlays,
         window |-> IF alive THEN NoWindow ELSE s.window,
         host |-> RestoredHost]

\* n calls, one after the other
RECURSIVE CancelledTimes(_)
CancelledTimes(n) ==
    IF n <= 1 THEN CancelledOnce ELSE cancel_again(CancelledTimes(n - 1))

\* cancel_screenshot, called n times in a row
cancel_screenshot_times(e, n) ==
    /\ overlays' = CancelledTimes(n).overlays
    /\ screenshot_window' = CancelledTimes(n).window
    /\ host' = CancelledTimes(n).host
    /\ ev' = [e EXCEPT !.outcome = "Cancelled",
                       !.once = CancelledOnce,
                       !.steps = << "destroy_overlay", "restore_host" >>]
    /\ UNCHANGED << disk, files, clipboard >>

\* cancel_screenshot
cancel_screenshot(e) == cancel_screenshot_times(e, 1)

\* lines 839-842: the selection in image coordinates
image_coords(x1, y1, x2, y2) == << x1, y1, x2, y2 >>

\* clamp_box with the right and bottom edges limited like the left and top
clamp_box_inner(b, w, h) ==
    << Max2(0, Min2(b[1], w - 1)), Max2(0, Min2(b[2], h - 1)),
       Max2(0, Min2(b[3], w - 1)), Max2(0, Min2(b[4], h - 1)) >>

\* lines 847-850: the range check against an image of size w x h
clamp_box(b, w, h) ==
    << Max2(0, Min2(b[1], w - 1)), Max2(0, Min2(b[2], h - 1)),
       Max2(0, Min2(b[3], w)), Max2(0, Min2(b[4], h)) >>

\* line 853
invalid_box(b) == b[3] <= b[1] \/ b[4] <= b[2]

\* Image.crop: the size of the cropped image
crop_size(b) == << b[3] - b[1], b[4] - b[2] >>

----------------------------------------------------------------------------
(* Persistence: save_screenshot and save_optimized_image. *)

\* IEEE-754 binary64 arithmetic on positive integers, as far as
\* save_optimized_image uses it.  A significand is a sequence of bits, the
\* least significant bit first.
MantissaBits == 53

\* the least j >= 0 with a * 2^j >= b
RECURSIVE ShiftTo(_, _, _)
ShiftTo(a, b, j) == IF a >= b THEN j ELSE ShiftTo(2 * a, b, j + 1)

\* 2^n
RECURSIVE Pow2(_)
Pow2(n) == IF n = 0 THEN 1 ELSE 2 * Pow2(n - 1)

\* long division: n further quotient bits of r / b (r < b), prepended to
\* acc, and the remainder that is left
RECURSIVE DivBits(_, _, _, _)
DivBits(r, b, n, acc) ==
    IF n = 0 THEN [bits |-> acc, rem |-> r]
    ELSE IF 2 * r >= b THEN DivBits(2 * r - b, b, n - 1, << 1 >> \o acc)
         ELSE DivBits(2 * r, b, n - 1, << 0 >> \o acc)

\* bits + 1
RECURSIVE Increment(_)
Increment(bits) ==
    IF bits = << >> THEN << 1 >>
    ELSE IF Head(bits) = 0 THEN << 1 >> \o Tail(bits)
    ELSE << 0 >> \o Increment(Tail(bits))

\* round to nearest, ties to even: kept is incremented when the dropped
\* part is above one half (half /\ sticky), or is one half and kept is odd
RoundNearestEven(kept, half, sticky) ==
    IF half /\ (sticky \/ Head(kept) = 1) THEN Increment(kept) ELSE kept

\* the double a / b for 0 < a < b: value sig * 2^(-exp)
FloatDiv(a, b) ==
    LET j == ShiftTo(a, b, 0)
        d == DivBits(a * Pow2(j) - b, b, MantissaBits - 1, << 1 >>)
        sig == RoundNearestEven(d.bits, 2 * d.rem >= b, 2 * d.rem > b)
    IN  IF Len(sig) > MantissaBits
        THEN [sig |-> Tail(sig), exp |-> j + MantissaBits - 2]
        ELSE [sig |-> sig, exp |-> j + MantissaBits - 1]

\* x * bits, exactly
RECURSIVE MulBits(_, _, _)
MulBits(x, bits, carry) ==
    IF bits = << >>
    THEN IF carry = 0 THEN << >>
         ELSE << carry % 2 >> \o MulBits(x, << >>, carry \div 2)
    ELSE LET t == x * Head(bits) + carry
         IN  << t % 2 >> \o MulBits(x, Tail(bits), t \div 2)

\* the double nearest to the exact product p (bits)
RoundProduct(p) ==
    LET s == Len(p) - MantissaBits
    IN  IF s <= 0 THEN [sig |-> p, shift |-> 0]
        ELSE [sig |-> RoundNearestEven(SubSeq(p, s + 1, Len(p)), p[s] = 1,
                                       \E i \in 1..(s - 1) : p[i] = 1),
              shift |-> s]

\* the integer that bits stand for
RECURSIVE BitsToInt(_)
BitsToInt(bits) ==
    IF bits = << >> THEN 0 ELSE Head(bits) + 2 * BitsToInt(Tail(bits))

\* int(x * (a / b)) for 0 < a < b
IntOfScaled(x, a, b) ==
    LET q == FloatDiv(a, b)
        p == RoundProduct(MulBits(x, q.sig, 0))
        drop == q.exp - p.shift
    IN  IF drop >= Len(p.sig) THEN 0
        ELSE BitsToInt(SubSeq(p.sig, drop + 1, Len(p.sig)))

\* the keys of quality_settings (lines 951-976)
QualityPresets == { "low", "medium", "high" }

\* settings["resize_threshold"]
resize_threshold(preset) ==
    IF preset = "medium" THEN 2560
    ELSE IF preset = "high" THEN 4096
    ELSE 9999999

\* settings["resize_max_width"]
resize_max_width(preset) ==
    IF preset = "medium" THEN 2048
    ELSE IF preset = "high" THEN 3840
    ELSE 9999999

\* lines 987-989: int(x * scale) with scale = min(max_width / width, 1.0)
scaled(x, max_width, width) ==
    IF max_width >= width THEN x ELSE IntOfScaled(x, max_width, width)

\* lines 981-990: the size of the image that is written
saved_size(preset, size) ==
    IF size[1] > resize_threshold(preset)
    THEN << scaled(size[1], resize_max_width(preset), size[1]),
            scaled(size[2], resize_max_width(preset), size[1]) >>
    ELSE size

\* the quality_preset a save may find in the configuration; for an image
\* that no preset resizes the preset makes no difference and is fixed
PresetChoice(size) ==
    IF size[1] > resize_threshold("medium") THEN QualityPresets ELSE { "low" }

\* ticks of the wall clock in one second
TicksPerSecond == 2

\* datetime.now().strftime("%Y%m%d_%H%M%S") at tick t: one text per second
Timestamps ==
    << "20250101_120000", "20250101_120001", "20250101_120002",
       "20250101_120003", "20250101_120004" >>

strftime(t) == Timestamps[(t \div TicksPerSecond) + 1]

\* Texts (file names, prefixes, the clipboard) are sequences of pieces; a
\* text begins with another one when its pieces do.
\* config "file_prefix" (default "screenshot_") as the user may set it
DefaultFilePrefix == << "screenshot", "_" >>
FilePrefixes == { DefaultFilePrefix, << "cap", "_" >> }

\* config "custom_prefix" (default "read image: ", or empty)
DefaultCustomPrefix == << "read image: " >>
CustomPrefixes == { << >>, DefaultCustomPrefix }

\* generate_filename at tick t
generate_filename(file_prefix, t) == file_prefix \o << strftime(t), ".png" >>

\* the configuration a save may find
SaveConfigs ==
    [quality_preset : QualityPresets, file_prefix : FilePrefixes,
     custom_prefix : CustomPrefixes]

\* the configuration of a commit; what makes no difference to the commit is
\* left at its default
ConfigChoice(size) ==
    { c \in SaveConfigs : /\ c.quality_preset \in PresetChoice(size)
                          /\ c.file_prefix = DefaultFilePrefix
                          /\ c.custom_prefix = DefaultCustomPrefix }

\* what one save_screenshot call can do: save_optimized_image fails with
\* nothing at the destination path; img.save (line 1008) raises after it has
\* written a part of the file, which nothing removes; the file is written
\* and auto_copy_path is off; the file is written and its path copied; the
\* file is written, the first pyperclip.copy (932) raises and the second
\* one (940) succeeds; the file is written and both pyperclip.copy raise
SaveOutcomes ==
    { "failed", "failed_partial", "saved", "saved_copied",
      "saved_copied_retry", "saved_copy_failed" }

\* the outcomes of the save of a commit; the failures of the copy are the
\* subject of SaveImage
CommitOutcomes == { "failed", "failed_partial", "saved", "saved_copied" }

\* save_optimized_image returned True
Written(how) == how \notin { "failed", "failed_partial" }

\* a pyperclip.copy call of the save succeeds
Copies(how) == how \in { "saved_copied", "saved_copied_retry" }

\* copy_to_clipboard_with_prefix leaving the prefix out of the first copy
copy_to_clipboard_with_prefix_bare(filepath, custom_prefix, how) ==
    IF Copies(how) THEN filepath ELSE clipboard

\* copy_to_clipboard_with_prefix: the clipboard after it; the except branch
\* (936-943) copies the path alone when the first copy raised
copy_to_clipboard_with_prefix(filepath, custom_prefix, how) ==
    IF how = "saved_copied" THEN custom_prefix \o filepath
    ELSE IF how = "saved_copied_retry" THEN filepath
    ELSE clipboard

\* save_screenshot of an image of the given size, recorded in e
save_screenshot(e, size, conf, how) ==
    LET filepath == generate_filename(conf.file_prefix, now)
    IN  /\ disk' = IF Written(how) THEN disk + 1 ELSE disk
        /\ files' = IF how = "failed" THEN files ELSE files \cup { filepath }
        /\ clipboard' =
               IF Written(how) /\ how # "saved"
               THEN copy_to_clipboard_with_prefix(filepath, conf.custom_prefix, how)
               ELSE clipboard
        /\ ev' = [e EXCEPT !.crop = size,
                           !.save_called = TRUE,
                           !.preset = conf.quality_preset,
                           !.saved = IF Written(how)
                                     THEN saved_size(conf.quality_preset, size)
                                     ELSE << 0, 0 >>,
                           !.partial = (how = "failed_partial"),
                           !.error = ~Written(how),
                           !.file = filepath,
                           !.how = how,
                           !.custom_prefix = conf.custom_prefix,
                           !.copied = Copies(how)]

----------------------------------------------------------------------------
(* Selection Controller: the commit and the pointer handlers. *)

\* CommitSteps with the host window restored before the crop
CommitSteps_restore_first(invalid) ==
    << "destroy_overlay", "restore_host" >>
    \o (IF invalid THEN << "showerror" >> ELSE << "crop", "save_screenshot" >>)

\* the steps of capture_selected_area in the order of its lines: 830-835,
\* then 855 or 861-865, and the finally block 872-885
CommitSteps(invalid) ==
    << "destroy_overlay" >>
    \o (IF invalid THEN << "showerror" >> ELSE << "crop", "save_screenshot" >>)
    \o << "restore_host" >>

\* capture_selected_area
capture_selected_area(e, x1, y1, x2, y2) ==
    \E raw \in { image_coords(x1, y1, x2, y2) } :
    \E box \in { clamp_box(raw, screenshot_img[1], screenshot_img[2]) } :
    \E e1 \in { [e EXCEPT !.outcome = "Committed", !.img = raw, !.box = box,
                          !.steps = CommitSteps(invalid_box(box))] } :
        /\ overlays' = overlays \ { screenshot_window }
        /\ screenshot_window' = NoWindow
        /\ IF invalid_box(box)
           THEN /\ ev' = [e1 EXCEPT !.error = TRUE]
                /\ UNCHANGED << disk, files, clipboard >>
           ELSE \E how \in CommitOutcomes, conf \in ConfigChoice(crop_size(box)) :
                    save_screenshot(e1, crop_size(box), conf, how)
        /\ host' = RestoredHost

\* large_enough with "or" in place of "and"
large_enough_either(x1, y1, x2, y2) ==
    x2 - x1 > MinSelection \/ y2 - y1 > MinSelection

\* line 816: the selection is large enough
large_enough(x1, y1, x2, y2) ==
    x2 - x1 > MinSelection /\ y2 - y1 > MinSelection

\* on_mouse_press; the pointer is inside the overlay
on_mouse_press ==
    /\ overlays # {}
    /\ \E p \in PressPoints :
        /\ p[1] < virtual_screen_rect.width
        /\ p[2] < virtual_screen_rect.height
        /\ start_x' = p[1]
        /\ start_y' = p[2]
    /\ selecting' = TRUE
    /\ ev' = [Ev("press", "ui") EXCEPT !.pressed = TRUE]
    /\ UNCHANGED << hotkey_vars, win32, displays, now, files, monitors, virtual_screen_rect, virtual_offset,
                    screenshot_img, screenshot_window, overlays,
                    was_minimized, host, disk, clipboard, pending_after,
                    bg_pc, pre_vis >>

\* on_mouse_drag: while selecting, draws the outline and the size read-out
on_mouse_drag ==
    /\ overlays # {}
    /\ ev' = [Ev("drag", "ui") EXCEPT
                 !.outcome = IF selecting THEN "Drawn" ELSE "Ignored"]
    /\ UNCHANGED << hotkey_vars, win32, displays, now, files, monitors, virtual_screen_rect, virtual_offset,
                    screenshot_img, screenshot_window, overlays, selecting,
                    start_x, start_y, was_minimized, host, disk, clipboard,
                    pending_after, bg_pc, pre_vis >>

\* on_mouse_release
on_mouse_release ==
    /\ overlays # {}
    /\ SavesLeft
    /\ IF selecting
       THEN \E x \in EventXs, y \in EventYs :
             LET x1 == Min2(start_x, x)
                 y1 == Min2(start_y, y)
                 x2 == Max2(start_x, x)
                 y2 == Max2(start_y, y)
                 e == [Ev("release", "ui") EXCEPT !.sel = << x1, y1, x2, y2 >>]
             IN  /\ selecting' = FALSE
                 /\ IF large_enough(x1, y1, x2, y2)
                    THEN capture_selected_area(e, x1, y1, x2, y2)
                    ELSE cancel_screenshot(e)
       ELSE /\ ev' = [Ev("release", "ui") EXCEPT !.outcome = "Ignored"]
            /\ UNCHANGED << selecting, screenshot_window, overlays, host,
                            disk, files, clipboard >>
    /\ UNCHANGED << hotkey_vars, win32, displays, now, monitors, virtual_screen_rect, virtual_offset,
                    screenshot_img, start_x, start_y, was_minimized,
                    pending_after, bg_pc, pre_vis >>

\* The cancel_screenshot calls one Escape key event makes: the canvas has
\* the focus, its <Escape> binding (688-689) runs first and the binding of
\* the overlay window (686-687), next in the canvas's binding tags, runs
\* after it unless Tk stops the event at the destroyed window.
CancelCalls == { 1, 2 }

\* the Escape key on the overlay: the <Escape> bindings (686-689) and
\* on_key_press (739-743) call cancel_screenshot
on_key_press ==
    /\ overlays # {}
    /\ \E n \in CancelCalls : cancel_screenshot_times(Ev("cancel", "ui"), n)
    /\ UNCHANGED << hotkey_vars, win32, displays, now, monitors, virtual_screen_rect, virtual_offset,
                    screenshot_img, selecting, start_x, start_y,
                    was_minimized, pending_after, bg_pc, pre_vis >>

----------------------------------------------------------------------------
(* The host window outside a session. *)

\* hide_window: the tray menu withdraws the host window
hide_window ==
    /\ host # "withdrawn"
    /\ ~SessionActive
    /\ host' = "withdrawn"
    /\ ev' = Ev("hide_window", "tray")
    /\ UNCHANGED << hotkey_vars, win32, displays, now, files, monitors, virtual_screen_rect, virtual_offset,
                    screenshot_img, screenshot_window, overlays, selecting,
                    start_x, start_y, was_minimized, disk, clipboard,
                    pending_after, bg_pc, pre_vis >>

\* show_window: the tray menu shows the host window
show_window ==
    /\ host # "normal"
    /\ ~SessionActive
    /\ host' = "normal"
    /\ ev' = Ev("show_window", "tray")
    /\ UNCHANGED << hotkey_vars, win32, displays, now, files, monitors, virtual_screen_rect, virtual_offset,
                    screenshot_img, screenshot_window, overlays, selecting,
                    start_x, start_y, was_minimized, disk, clipboard,
                    pending_after, bg_pc, pre_vis >>

\* the user minimizes the host window through the window manager
UserMinimize ==
    /\ host = "normal"
    /\ ~SessionActive
    /\ host' = "iconic"
    /\ ev' = Ev("minimize", "ui")
    /\ UNCHANGED << hotkey_vars, win32, displays, now, files, monitors, virtual_screen_rect, virtual_offset,
                    screenshot_img, screenshot_window, overlays, selecting,
                    start_x, start_y, was_minimized, disk, clipboard,
                    pending_after, bg_pc, pre_vis >>

----------------------------------------------------------------------------
(* The program. *)

\* ScreenshotTool.__init__ (lines 150-166, with its detect_monitors call)
\* and the front end's construction, on a machine whose display
\* configurations are ds: the host window is shown
InitOn(ds) ==
    /\ win32 \in BOOLEAN
    /\ displays = ds
    /\ \E det \in DetectOutcomes :
           IF win32
           THEN \E cfg \in ds :
                    /\ monitors = detect_monitors(cfg, <<0, 0>>, det, NoRect).monitors
                    /\ virtual_screen_rect =
                           detect_monitors(cfg, <<0, 0>>, det, NoRect).virtual_screen_rect
           ELSE \E tk \in TkScreens :
                    /\ det = "ok"
                    /\ monitors = detect_monitors(<< >>, tk, det, NoRect).monitors
                    /\ virtual_screen_rect = NoRect
    /\ virtual_offset = << 0, 0 >>
    /\ screenshot_img = NoImage
    /\ screenshot_window = NoWindow
    /\ overlays = {}
    /\ selecting = FALSE
    /\ start_x = 0
    /\ start_y = 0
    /\ was_minimized = FALSE
    /\ host = "normal"
    /\ disk = 0
    /\ files = {}
    /\ now = 0
    /\ clipboard = << >>
    /\ pending_after = 0
    /\ bg_pc = "idle"
    /\ pre_vis = "normal"
    /\ hotkey_enabled = FALSE
    /\ worker_pc = [w \in 1..MaxWorkers |-> "unborn"]
    /\ hotkeys = {}
    /\ ev = EvBase

\* any of the machines
Init == \E ds \in Machines : InitOn(ds)

\* a machine with one display, to which a second one may be attached
InitThreads == InitOn(ThreadDisplays)

\* The program driven from the host window: sessions are started with its
\* buttons and ended on the overlay.
Next ==
    \/ ButtonStart
    \/ on_mouse_press
    \/ on_mouse_drag
    \/ on_mouse_release
    \/ on_key_press

Spec == Init /\ [][Next]_vars

\* The program with its global hotkey registered and its tray menu in use:
\* sessions are also started from the keyboard thread and the tray thread,
\* and the host window is hidden, shown and minimized between sessions.
\* Sessions end by the Escape key.
NextThreads ==
    \/ ButtonStart
    \/ HotkeyMarshalled
    \/ RunAfter
    \/ BgArm
    \/ BgDestroyOld
    \/ BgToplevel
    \/ on_key_press
    \/ hide_window
    \/ show_window
    \/ UserMinimize

SpecThreads == InitThreads /\ [][NextThreads]_vars

\* sizes of the images handed to save_screenshot: a small one, one at the
\* 'medium' threshold, three above it and one above the 'high' threshold
ImageSizes ==
    { << 20, 12 >>, << 2560, 2000 >>, << 2569, 2000 >>, << 2576, 161 >>,
      << 3000, 2000 >>, << 4269, 2000 >> }

\* save_screenshot called with an image of any of these sizes; the
\* custom_prefix, which only a copy reads (921), is varied for the saves
\* that copy
SaveImage ==
    /\ disk < MaxSaves
    /\ \E size \in ImageSizes :
       \E how \in SaveOutcomes, conf \in SaveConfigs :
           /\ conf.file_prefix = DefaultFilePrefix
           /\ conf.custom_prefix # DefaultCustomPrefix => Copies(how)
           /\ save_screenshot(Ev("save", "ui"), size, conf, how)
    /\ UNCHANGED << hotkey_vars, win32, displays, now, monitors, virtual_screen_rect,
                    virtual_offset, screenshot_img, screenshot_window,
                    overlays, selecting, start_x, start_y, was_minimized,
                    host, pending_after, bg_pc, pre_vis >>

\* The Persistence Adapter on its own.
NextSave == SaveImage

\* a machine with one display
InitSave == InitOn({ << Mon(0, 0, 20, 12, TRUE) >> })

SpecSave == InitSave /\ [][NextSave]_vars

----------------------------------------------------------------------------
(* The save directory: screenshot_gui.py clean_screenshots. *)

\* text begins with pre
StartsWith(text, pre) ==
    Len(text) >= Len(pre) /\ SubSeq(text, 1, Len(pre)) = pre

\* the patterns of lines 711-717, each "<pre>*<ext>"
screenshot_patterns(file_prefix) ==
    << [pre |-> file_prefix, ext |-> ".png"],
       [pre |-> file_prefix, ext |-> ".jpg"],
       [pre |-> file_prefix, ext |-> ".jpeg"],
       [pre |-> << "shot", "_" >>, ext |-> ".png"],
       [pre |-> << "screenshot" >>, ext |-> ".png"] >>

\* a file name matches the pattern "<pre>*<ext>"
glob_match(name, pat) ==
    /\ StartsWith(name, pat.pre)
    /\ Len(name) > Len(pat.pre)
    /\ name[Len(name)] = pat.ext

\* the elements of a set in some order
RECURSIVE SeqOf(_)
SeqOf(S) ==
    IF S = {} THEN << >>
    ELSE LET x == CHOOSE y \in S : TRUE
         IN  << x >> \o SeqOf(S \ { x })

\* lines 719-721: found_files.extend(save_path.glob(pattern)) for the
\* patterns from the i-th on.  The sort of line 728 reorders the list and
\* changes no element of it.
RECURSIVE found_files(_, _, _)
found_files(dir, pats, i) ==
    IF i > Len(pats) THEN << >>
    ELSE SeqOf({ n \in dir : glob_match(n, pats[i]) })
         \o found_files(dir, pats, i + 1)

\* lines 784-792: unlink() of every element of found, counting
RECURSIVE unlink_all(_, _, _, _, _)
unlink_all(found, dir, locked, deleted_count, failed_files) ==
    IF found = << >>
    THEN [files |-> dir, deleted_count |-> deleted_count,
          failed_files |-> failed_files]
    ELSE IF Head(found) \in dir /\ Head(found) \notin locked
         THEN unlink_all(Tail(found), dir \ { Head(found) }, locked,
                         deleted_count + 1, failed_files)
         ELSE unlink_all(Tail(found), dir, locked,
                         deleted_count, failed_files + 1)

\* askyesnocancel
Answers == { "yes", "no", "cancel" }

\* clean_screenshots with an existing save directory
clean_screenshots ==
    /\ \E file_prefix \in FilePrefixes, answer \in Answers,
          locked \in { {} } \cup { { f } : f \in files } :
       \E found \in { found_files(files, screenshot_patterns(file_prefix), 1) } :
       \E r \in { unlink_all(found, files, locked, 0, 0) } :
       \E e \in { [Ev("clean", "ui") EXCEPT !.file_prefix = file_prefix,
                                            !.found = found] } :
          IF found = << >>
          THEN /\ files' = files
               /\ ev' = [e EXCEPT !.outcome = "NoScreenshots"]
          ELSE IF answer = "yes"
          THEN /\ files' = r.files
               /\ ev' = [e EXCEPT !.answer = answer, !.locked = locked,
                                  !.deleted = r.deleted_count,
                                  !.failed = r.failed_files,
                                  !.outcome = IF r.failed_files > 0
                                              THEN "PartlyDone" ELSE "Success"]
          ELSE /\ files' = files
               /\ ev' = [e EXCEPT !.answer = answer, !.outcome = "Declined"]
    /\ UNCHANGED << hotkey_vars, win32, displays, now, monitors, virtual_screen_rect,
                    virtual_offset, screenshot_img, screenshot_window,
                    overlays, selecting, start_x, start_y, was_minimized,
                    host, disk, clipboard, pending_after, bg_pc, pre_vis >>

\* files that are in the save directory without a save of this session:
\* a screenshot of the old naming scheme and a file of another program
OtherFiles ==
    { << "shot", "_", "old", ".png" >>,
      << "notes", ".txt" >> }

\* such a file appears
OtherFile ==
    /\ \E f \in OtherFiles \ files : files' = files \cup { f }
    /\ UNCHANGED << hotkey_vars, win32, displays, now, monitors, virtual_screen_rect,
                    virtual_offset, screenshot_img, screenshot_window,
                    overlays, selecting, start_x, start_y, was_minimized,
                    host, disk, clipboard, pending_after, bg_pc, pre_vis, ev >>

\* time passes
Tick ==
    /\ now < MaxNow
    /\ now' = now + 1
    /\ UNCHANGED << hotkey_vars, win32, displays, files, monitors, virtual_screen_rect,
                    virtual_offset, screenshot_img, screenshot_window,
                    overlays, selecting, start_x, start_y, was_minimized,
                    host, disk, clipboard, pending_after, bg_pc, pre_vis, ev >>

\* A committed capture of 20 x 12 pixels reaches save_screenshot, under
\* any file_prefix; the save succeeds and auto_copy_path is off (failing
\* saves and the clipboard are the subject of SaveImage).
SaveCapture ==
    /\ disk < MaxFiles
    /\ \E conf \in SaveConfigs :
           /\ conf.quality_preset \in PresetChoice(<< 20, 12 >>)
           /\ conf.custom_prefix = DefaultCustomPrefix
           /\ save_screenshot(Ev("save", "ui"), << 20, 12 >>, conf, "saved")
    /\ UNCHANGED << hotkey_vars, win32, displays, now, monitors, virtual_screen_rect,
                    virtual_offset, screenshot_img, screenshot_window,
                    overlays, selecting, start_x, start_y, was_minimized,
                    host, pending_after, bg_pc, pre_vis >>

\* The save directory over time: captures are saved into it and the user
\* cleans it.
NextFiles ==
    \/ SaveCapture
    \/ Tick
    \/ OtherFile
    \/ clean_screenshots

\* a machine with one display
InitFiles == InitOn({ << Mon(0, 0, 20, 12, TRUE) >> })

SpecFiles == InitFiles /\ [][NextFiles]_vars

----------------------------------------------------------------------------
(* The global hotkey of screenshot_gui.py (the keyboard module is there). *)

\* self.hotkey_var.get().strip()
HotkeyStrs == { "", "ctrl+shift+s" }

\* stop_hotkey, lines 678-684
stop_hotkey ==
    IF hotkey_enabled
    THEN /\ hotkeys' = {}
         /\ hotkey_enabled' = FALSE
         /\ UNCHANGED worker_pc
    ELSE UNCHANGED hotkey_vars

\* start_hotkey, lines 653-671: the worker thread is created and started
start_hotkey(hotkey_str) ==
    IF hotkey_str = ""
    THEN UNCHANGED hotkey_vars
    ELSE /\ \E w \in 1..MaxWorkers :
              /\ worker_pc[w] = "unborn"
              /\ \A v \in 1..(w - 1) : worker_pc[v] # "unborn"
              /\ worker_pc' = [worker_pc EXCEPT ![w] = "started"]
         /\ UNCHANGED << hotkey_enabled, hotkeys >>

\* toggle_hotkey: the button of the host window, on the UI thread
toggle_hotkey ==
    /\ \E hotkey_str \in HotkeyStrs :
          IF hotkey_enabled
          THEN /\ stop_hotkey
               /\ ev' = [Ev("toggle_hotkey", "ui") EXCEPT !.outcome = "Stopped"]
          ELSE /\ start_hotkey(hotkey_str)
               /\ ev' = [Ev("toggle_hotkey", "ui") EXCEPT
                            !.outcome = IF hotkey_str = "" THEN "Invalid"
                                        ELSE "Starting",
                            !.error = (hotkey_str = "")]
    /\ UNCHANGED tool_vars

\* hotkey_worker, line 662: keyboard.add_hotkey registers the callback, or
\* raises and the worker ends with the error box of lines 666-668
HotkeyWorkerAdd ==
    /\ \E w \in 1..MaxWorkers, ok \in BOOLEAN :
          /\ worker_pc[w] = "started"
          /\ worker_pc' = [worker_pc EXCEPT ![w] = IF ok THEN "added" ELSE "failed"]
          /\ hotkeys' = IF ok THEN hotkeys \cup { w } ELSE hotkeys
          /\ ev' = [Ev("add_hotkey", "hotkey") EXCEPT !.error = ~ok]
    /\ UNCHANGED hotkey_enabled
    /\ UNCHANGED tool_vars

\* hotkey_worker, lines 663-665: hotkey_enabled is set and the worker waits
HotkeyWorkerEnable ==
    /\ \E w \in 1..MaxWorkers :
          /\ worker_pc[w] = "added"
          /\ worker_pc' = [worker_pc EXCEPT ![w] = "waiting"]
    /\ hotkey_enabled' = TRUE
    /\ ev' = Ev("hotkey_enabled", "hotkey")
    /\ UNCHANGED hotkeys
    /\ UNCHANGED tool_vars

\* The user presses the hotkey: the keyboard module calls the callback of
\* every active registration, and each callback is
\* start_area_screenshot(screenshot_mode='all') on the listener thread.
HotkeyPressed ==
    /\ ev' = [Ev("hotkey_press", "hotkey") EXCEPT !.started = Cardinality(hotkeys)]
    /\ UNCHANGED hotkey_vars
    /\ UNCHANGED tool_vars

\* The hotkey button, the worker threads and the hotkey.
NextHotkey ==
    \/ toggle_hotkey
    \/ HotkeyWorkerAdd
    \/ HotkeyWorkerEnable
    \/ HotkeyPressed

\* a machine with one display
InitHotkey == InitOn({ << Mon(0, 0, 20, 12, TRUE) >> })

SpecHotkey == InitHotkey /\ [][NextHotkey]_vars

----------------------------------------------------------------------------
(* The claims. *)

\* on_mouse_release ran with a drag in progress
Released == ev.op = "release" /\ ev.outcome \in { "Committed", "Cancelled" }
Committed == ev.op = "release" /\ ev.outcome = "Committed"
SelW == ev.sel[3] - ev.sel[1]
SelH == ev.sel[4] - ev.sel[2]

\* C1: on pointer-up the session is Committed exactly when the normalized
\* width and height are both at least 10 px (a 10x10 drag included), and
\* Cancelled otherwise.
C1_CommitIffAtLeastTen ==
    Released => (ev.outcome = "Committed" <=> (SelW >= 10 /\ SelH >= 10))

\* C2: a pointer-up whose normalized width or height is below 10 px ends the
\* session Cancelled: save_screenshot is not called, no file is written and
\* the clipboard is not changed.
C2_SmallDragCancels ==
    (Released /\ (SelW < 10 \/ SelH < 10)) =>
        /\ ev.outcome = "Cancelled"
        /\ ~ev.save_called
        /\ disk = ev.disk0
        /\ clipboard = ev.clip0

\* a drag wide enough but not high enough was released
C2_Witness ==
    Released /\ SelW > 10 /\ SelH < 10 /\ SelH > 0 /\ ev.outcome = "Cancelled"

\* C3: on commit the overlay rectangle is moved by
\* (originOffset - virtualRect origin) before it is cropped, in every mode.
C3_OffsetCorrected ==
    Committed =>
        LET dx == virtual_offset[1] - virtual_screen_rect.left
            dy == virtual_offset[2] - virtual_screen_rect.top
        IN  ev.img = << ev.sel[1] - dx, ev.sel[2] - dy,
                        ev.sel[3] - dx, ev.sel[4] - dy >>

\* C4: when a session has ended by commit or cancel, the host window is in
\* the visibility state it had before the session was armed.
C4_HostVisibilityRestored ==
    (Released \/ ev.op = "cancel") => host = pre_vis

\* C5: at most one selection overlay window exists.
C5_AtMostOneOverlay == Cardinality(overlays) <= 1

\* C6: a cancel event destroys the overlay, writes no file, leaves the
\* clipboard unchanged and restores the host window to its pre-session
\* visibility.
C6_CancelHasNoSideEffects ==
    ev.op = "cancel" =>
        /\ overlays = {}
        /\ disk = ev.disk0
        /\ clipboard = ev.clip0
        /\ host = pre_vis

\* C7: start_area_screenshot never runs on the hotkey listener thread.
C7_StartNotOnHotkeyThread ==
    ev.op = "start" => ev.thread # "hotkey"

\* v limited to [0, hi]
ClampInto(v, hi) == Max2(0, Min2(v, hi))

\* C8: on commit the rectangle is clamped into [0, W] x [0, H]; it is
\* cropped only with 0 <= x1 < x2 <= W and 0 <= y1 < y2 <= H, and when the
\* clamped rectangle has no area an error is shown, no file is saved and the
\* host window is restored.
C8_ClampedOrError ==
    Committed =>
        LET w == screenshot_img[1]
            h == screenshot_img[2]
            c == << ClampInto(ev.img[1], w), ClampInto(ev.img[2], h),
                    ClampInto(ev.img[3], w), ClampInto(ev.img[4], h) >>
        IN  IF c[3] <= c[1] \/ c[4] <= c[2]
            THEN /\ ev.error
                 /\ ~ev.save_called
                 /\ disk = ev.disk0
                 /\ host # "withdrawn"
            ELSE /\ ev.box = c
                 /\ ev.crop = << c[3] - c[1], c[4] - c[2] >>

\* C9: a committed selection whose rectangle in image coordinates has
\* 0 <= x1 < x2 <= W and 0 <= y1 < y2 <= H is left unchanged by the range
\* check, and the cropped image has exactly the size (x2 - x1) x (y2 - y1).
C9_InRangeCropExact ==
    (/\ Committed
     /\ 0 <= ev.img[1] /\ ev.img[1] < ev.img[3] /\ ev.img[3] <= screenshot_img[1]
     /\ 0 <= ev.img[2] /\ ev.img[2] < ev.img[4] /\ ev.img[4] <= screenshot_img[2])
    => /\ ev.box = ev.img
       /\ ev.crop = << ev.img[3] - ev.img[1], ev.img[4] - ev.img[2] >>

\* a selection reaching the right and bottom edges of the image was cropped
C9_Witness ==
    /\ Committed
    /\ ev.img[1] = 0 /\ ev.img[2] = 0
    /\ ev.img[3] = screenshot_img[1] /\ ev.img[4] = screenshot_img[2]
    /\ ev.save_called

\* the half-open rule left <= x < right, top <= y < bottom
HalfOpen(m, x, y) ==
    /\ m.left <= x /\ x < m.left + m.width
    /\ m.top <= y /\ y < m.top + m.height

\* C10: get_mouse_monitor resolves a pointer position that some display
\* contains under the half-open rule to the first such display in the order
\* of the monitor list; in the scenario of displays A = {0,0,1920,1080} and
\* B = {1920,0,1080,1920}, (1920, y) and (2000, 500) resolve to B.
C10_FirstHalfOpenMatch ==
    (ev.op = "start" /\ ev.idx >= 0 /\ ev.cursor.ok) =>
        LET hits == { i \in 1..Len(monitors) :
                        HalfOpen(monitors[i], ev.cursor.x, ev.cursor.y) }
        IN  /\ hits # {} =>
                /\ ev.idx + 1 \in hits
                /\ \A j \in hits : ev.idx + 1 <= j
            /\ (/\ monitors = << Mon(0, 0, 1920, 1080, TRUE),
                                Mon(1920, 0, 3000, 1920, FALSE) >>
                /\ \/ ev.cursor.x = 1920
                   \/ ev.cursor.x = 2000 /\ ev.cursor.y = 500)
               => ev.idx = 1

\* the pointer on the boundary shared by A and B was resolved
C10_Witness ==
    /\ ev.op = "start" /\ ev.cursor.ok
    /\ ev.cursor.x = 1920 /\ ev.cursor.y = 1079
    /\ Len(monitors) = 2 /\ monitors[1].right = 1920 /\ monitors[2].left = 1920
    /\ ev.idx = 1

\* C11: when the pointer lies inside no display of the monitor list,
\* get_mouse_monitor returns the index of the primary display, and index 0
\* when no display of the list is marked primary; the index it returns is
\* always a valid index into the monitor list.
C11_FallbackToPrimary ==
    (ev.op = "start" /\ ev.idx >= 0) =>
        /\ ev.idx < Len(monitors)
        /\ (/\ ev.cursor.ok
            /\ \A i \in 1..Len(monitors) :
                   ~HalfOpen(monitors[i], ev.cursor.x, ev.cursor.y))
           => IF \E i \in 1..Len(monitors) : monitors[i].is_primary
              THEN monitors[ev.idx + 1].is_primary
              ELSE ev.idx = 0

\* the pointer was on no display of a list of two displays, and a primary
\* display was there to fall back to
C11_Witness ==
    /\ ev.op = "start" /\ ev.cursor.ok /\ ev.idx = 0
    /\ Len(monitors) = 2 /\ monitors[1].is_primary
    /\ \A i \in 1..Len(monitors) :
           ~HalfOpen(monitors[i], ev.cursor.x, ev.cursor.y)

\* a session was started and its overlay created
Armed == ev.op = "start" /\ ev.outcome = "Armed"

\* C12: when the overlay is armed, virtual_screen_rect is the virtual screen
\* the platform reports when it reports one, and otherwise the bounding box
\* of the displays of the monitor list.
C12_VirtualScreenRect ==
    Armed =>
        virtual_screen_rect =
            IF win32 THEN VirtualScreen(ev.cfg) ELSE VirtualScreen(monitors)

\* C13: the virtual screen rectangle of a session is computed from that
\* session's displays and captured image, as if no earlier session had left
\* a rectangle behind.
C13_RectRecomputed ==
    Armed =>
        virtual_screen_rect =
            get_virtual_screen_bounds(
                detect_monitors(ev.cfg, ev.tk, ev.det, NoRect).virtual_screen_rect,
                screenshot_img)

\* C14: the origin offset capture_all_screens returns is
\* (virtual_screen_rect.left, virtual_screen_rect.top) on every path, the
\* fallback paths included.
C14_OffsetIsVirtualOrigin ==
    (Armed /\ ev.path = "all") =>
        virtual_offset = << virtual_screen_rect.left, virtual_screen_rect.top >>

\* C15: detect_monitors leaves a non-empty monitor list, and after an
\* enumeration failure the list is exactly one primary display at (0, 0),
\* the synthetic one.
C15_SyntheticOnFailure ==
    ev.op = "start" =>
        /\ monitors # << >>
        /\ ev.det # "ok" =>
              /\ Len(monitors) = 1
              /\ monitors[1].is_primary
              /\ monitors[1].left = 0 /\ monitors[1].top = 0

\* C16: the monitor list has the primary display first and the other
\* displays in ascending order of (left, top), so that index 0 is the
\* primary display whenever the list has one.
C16_SortedPrimaryFirst ==
    /\ \A i, j \in 1..Len(monitors) :
        i < j =>
            /\ monitors[j].is_primary => monitors[i].is_primary
            /\ monitors[i].is_primary = monitors[j].is_primary =>
                  \/ monitors[i].left < monitors[j].left
                  \/ /\ monitors[i].left = monitors[j].left
                     /\ monitors[i].top <= monitors[j].top
    /\ (\E i \in 1..Len(monitors) : monitors[i].is_primary)
           => monitors[1].is_primary

\* three displays enumerated with the primary in the middle and the
\* rightmost first were put in order
C16_Witness ==
    /\ ev.op = "start" /\ ev.det = "ok"
    /\ Len(ev.cfg) = 3 /\ ~ev.cfg[1].is_primary
    /\ Len(monitors) = 3 /\ monitors[1] = ev.cfg[2]
    /\ monitors[2] = ev.cfg[3] /\ monitors[3] = ev.cfg[1]

\* C17: after detect_monitors exactly one display of the monitor list has
\* is_primary = true.
C17_ExactlyOnePrimary ==
    ev.op = "start" =>
        Cardinality({ i \in 1..Len(monitors) : monitors[i].is_primary }) = 1

\* C18: when the capture primitive fails and the fallback grab succeeds, the
\* session is armed and no error is shown; when the fallback grab raises
\* too, no overlay is created and the host window is back in its
\* pre-session visibility.
C18_CaptureFailure ==
    ev.op = "start" =>
        /\ ev.capture = "fallback" =>
              /\ ev.outcome = "Armed"
              /\ ~ev.error
              /\ screenshot_window \in overlays
        /\ ev.capture = "throw" =>
              /\ overlays = ev.overlays0
              /\ host = pre_vis

\* C19: when save_optimized_image fails, the failure is reported (an error
\* is shown), no partly written file is left at the destination path and
\* the clipboard is not changed.
C19_FailedSaveLeavesNothing ==
    (ev.save_called /\ ev.saved = << 0, 0 >>) =>
        /\ ev.error
        /\ ~ev.partial
        /\ disk = ev.disk0
        /\ clipboard = ev.clip0

\* C20: an image not wider than the preset's resize threshold is saved in
\* its own size; a wider one is saved max_width wide and
\* floor(height * max_width / width) high.
C20_ResizeRule ==
    (ev.save_called /\ ev.saved # << 0, 0 >>) =>
        LET w == ev.crop[1]
            h == ev.crop[2]
            m == resize_max_width(ev.preset)
        IN  ev.saved = IF w <= resize_threshold(ev.preset) THEN << w, h >>
                       ELSE << m, (h * m) \div w >>

\* C21: a session goes Idle -> Armed -> Dragging -> Committed or Cancelled
\* -> Idle: a commit follows a pointer-down on the overlay of the running
\* session, a pointer-move draws only while such a drag is in progress, and
\* after a pointer-up that ends a drag or a cancel the overlay is destroyed
\* and no drag is in progress.
C21_SessionStateMachine ==
    /\ Committed => ev.pressed
    /\ (ev.op = "drag" /\ ev.outcome = "Drawn") => ev.pressed
    /\ (Released \/ ev.op = "cancel") => (overlays = {} /\ ~selecting)

\* C22: the drag flag and start point of an ended session have no effect on
\* a later one: a pointer-up that no pointer-down of its own session
\* preceded is ignored; it commits nothing and writes nothing.
C22_NoStaleSelection ==
    (ev.op = "release" /\ ~ev.pressed) =>
        /\ ev.outcome = "Ignored"
        /\ ~ev.save_called
        /\ disk = ev.disk0

\* C23: start_area_screenshot captures the one display get_mouse_monitor
\* returns, with that display's (left, top) as virtual_offset, exactly when
\* the mode is 'mouse' and the monitor list has more than one display;
\* otherwise it captures all screens and takes over the offset
\* capture_all_screens returns.
C23_MouseModeCapture ==
    Armed =>
        IF ev.mode = "mouse" /\ Len(monitors) > 1
        THEN /\ ev.path = "monitor"
             /\ ev.idx = get_mouse_monitor(monitors, ev.cursor)
             /\ screenshot_img = << monitors[ev.idx + 1].width,
                                    monitors[ev.idx + 1].height >>
             /\ virtual_offset = << monitors[ev.idx + 1].left,
                                    monitors[ev.idx + 1].top >>
        ELSE /\ ev.path = "all"
             /\ screenshot_img = capture_all_screens(ev.cfg, ev.tk, ev.capture).img
             /\ virtual_offset = capture_all_screens(ev.cfg, ev.tk, ev.capture).offset

\* in 'mouse' mode the second of two displays was captured on its own
C23_Witness ==
    /\ Armed /\ ev.mode = "mouse" /\ Len(monitors) = 2 /\ ev.idx = 1
    /\ ev.path = "monitor"
    /\ virtual_offset = << monitors[2].left, monitors[2].top >>
    /\ virtual_offset # << 0, 0 >>

\* C24: when start_area_screenshot ran while a session was active, the
\* visibility recorded by the first session is kept: a host window that was
\* shown before the first session is shown, not minimized, after the second
\* session has committed or cancelled.
C24_RestartKeepsVisibility ==
    ((Released \/ ev.op = "cancel") /\ ev.restarted /\ pre_vis = "normal") =>
        host = "normal"

\* C25: the cancel_screenshot calls of one key event, two or more in a row,
\* leave what a single call leaves, which is no overlay and the host window
\* in its pre-session visibility, and raise no error.
C25_CancelIdempotent ==
    ev.op = "cancel" =>
        /\ overlays = ev.once.overlays
        /\ screenshot_window = ev.once.window
        /\ host = ev.once.host
        /\ ~ev.error
        /\ overlays = {}
        /\ host = pre_vis

\* every b in seq has an a before it
Precedes(seq, a, b) ==
    \A j \in 1..Len(seq) : seq[j] = b => \E i \in 1..(j - 1) : seq[i] = a

C27_ClipboardAfterSave ==
    ev.save_called =>
        /\ ev.copied =>
              /\ ev.saved # << 0, 0 >>
              /\ ev.how # "saved"
              /\ ev.file \in files
              /\ clipboard = ev.custom_prefix \o ev.file
        /\ ~ev.copied => clipboard = ev.clip0
        /\ ev.saved = << 0, 0 >> => clipboard = ev.clip0

\* C27, amended: the clipboard is written only after the file has been
\* saved and only with auto_copy_path on; the text is custom_prefix followed
\* by the path of the saved file, or that path alone when the first copy
\* raised and the copy of the except branch went through; a failed save
\* leaves the clipboard as it was.
C27_ClipboardPrefixOrPath ==
    ev.save_called =>
        /\ ev.copied =>
              /\ ev.saved # << 0, 0 >>
              /\ ev.how # "saved"
              /\ ev.file \in files
              /\ clipboard = IF ev.how = "saved_copied_retry"
                             THEN ev.file
                             ELSE ev.custom_prefix \o ev.file
        /\ ~ev.copied => clipboard = ev.clip0
        /\ ev.saved = << 0, 0 >> => clipboard = ev.clip0

\* a save whose first copy raised put the path, without the configured
\* prefix, on the clipboard
C27_Witness ==
    /\ ev.save_called /\ ev.how = "saved_copied_retry"
    /\ ev.custom_prefix = DefaultCustomPrefix
    /\ ev.file \in files
    /\ clipboard = ev.file

\* C28: a committed capture is written to a path at which no file was, so
\* that no earlier screenshot is overwritten, two captures of the same
\* second included.
C28_UniquePaths ==
    (ev.op = "save" /\ Written(ev.how)) => ev.file \notin ev.files0

\* the files of dir that clean_screenshots looks for
Matching(dir, file_prefix) ==
    { n \in dir : \E i \in 1..Len(screenshot_patterns(file_prefix)) :
                      glob_match(n, screenshot_patterns(file_prefix)[i]) }

\* C30: clean_screenshots deletes nothing unless the user answers yes, and
\* only matching files; when the user answers yes and every matching file
\* can be deleted, each of them is deleted, no failure is reported and the
\* reported count is the number of distinct matching files, also when a
\* file matches more than one pattern.
C30_CleanDeletesOnce ==
    ev.op = "clean" =>
        /\ ev.answer # "yes" => files = ev.files0
        /\ files \subseteq ev.files0
        /\ (ev.files0 \ files) \subseteq Matching(ev.files0, ev.file_prefix)
        /\ (/\ ev.answer = "yes"
            /\ Matching(ev.files0, ev.file_prefix) \cap ev.locked = {})
           => /\ files = ev.files0 \ Matching(ev.files0, ev.file_prefix)
              /\ ev.failed = 0
              /\ ev.outcome = "Success"
              /\ ev.deleted = Cardinality(Matching(ev.files0, ev.file_prefix))

\* every hotkey worker that was started waits in keyboard.wait() or has
\* ended
WorkersRan == \A w \in 1..MaxWorkers : worker_pc[w] \in { "unborn", "waiting", "failed" }

\* C29: whatever the interleaving of toggle_hotkey with the hotkey workers,
\* at most one hotkey registration is active, hotkey_enabled is true exactly
\* when a hotkey is registered once the workers have run, and one press of
\* the hotkey starts at most one session.
C29_OneRegistration ==
    /\ Cardinality(hotkeys) <= 1
    /\ WorkersRan => (hotkey_enabled <=> hotkeys # {})
    /\ ev.op = "hotkey_press" => ev.started <= 1

====
